---- MODULE Spec2Model ----
(***************************************************************************)
(* Model of scripts/layoutrom.py (SeaBIOS): reachability analysis over the *)
(* relocation graph, categorization, the fixed-address packer, the zone    *)
(* layout engine and the emission of the three linker scripts.             *)
(*                                                                         *)
(* A section name ".t1.t2...tn" is the sequence <<t1, ..., tn>> of its     *)
(* dot-separated parts; the hexadecimal offset of a ".fixedaddr." name is  *)
(* one part per digit.  A symbol name "_cfunc32flat_foo" is the sequence   *)
(* <<"_cfunc", "32flat", "_", "foo">>.                                     *)
(***************************************************************************)
EXTENDS Integers, Sequences, FiniteSets, TLC

VARIABLES
    allsections,     \* id -> Section object; ids in the order of main's allsections
    symbols,         \* fileid -> symbol table (name -> Symbol)
    config,          \* the options main and doLayout read
    entrysym,        \* main's entrysym
    pc,              \* position of the run
    anchors,         \* findReachable's dict: the set of its keys
    pending,         \* findReachable's work list
    keepsections,    \* result of the kept-section traversal
    runtimesections, \* result of the runtime traversal
    sections,        \* the kept sections, as an id list
    lay,             \* doLayout's locals and the LayoutInfo fields
    written,         \* the output files written so far, in order
    script,          \* what the 32flat script says: relocstr, code32flat_start
    fitgap,          \* fill section id -> fixed section whose gap it was put in
    run,             \* number of the reachability run (the traversal is run twice)
    first            \* what the first reachability run computed

vars == <<allsections, symbols, config, entrysym, pc, anchors, pending,
          keepsections, runtimesections, sections, lay, written, script,
          fitgap, run, first>>

reachVars  == <<anchors, pending, keepsections, runtimesections, run, first>>
inputVars  == <<symbols, config, entrysym>>

----------------------------------------------------------------------------
(* Python values *)

None == -1

BUILD_BIOS_ADDR == 983040
BUILD_BIOS_SIZE == 65536
BUILD_ROM_START == 786432
BUILD_LOWRAM_END == 655360
BUILD_MIN_BIOSTABLE == 2048

FileIds == <<"16", "32seg", "32flat">>

----------------------------------------------------------------------------
(* Strings *)

\* name.startswith(prefix).  A prefix that ends with a dot, as ".text.",
\* is written with an empty last part, <<"text", "">>: the name must go on
\* after it; ".rodata" is <<"rodata">>.
StartsWith(name, prefix) ==
    IF prefix # <<>> /\ prefix[Len(prefix)] = ""
    THEN /\ Len(name) >= Len(prefix)
         /\ SubSeq(name, 1, Len(prefix) - 1) = SubSeq(prefix, 1, Len(prefix) - 1)
    ELSE /\ Len(name) >= Len(prefix)
         /\ SubSeq(name, 1, Len(prefix)) = prefix

\* part in name, for a part that starts and ends with a dot: ".init." is <<"init">>
Contains(name, part) ==
    \E i \in 1..Len(name) :
        /\ i + Len(part) <= Len(name)
        /\ SubSeq(name, i, i + Len(part) - 1) = part

HexDigits == <<"0", "1", "2", "3", "4", "5", "6", "7",
               "8", "9", "a", "b", "c", "d", "e", "f">>

HexDigitVal(c) == (CHOOSE i \in 1..16 : HexDigits[i] = c) - 1

\* int(digits, 16)
RECURSIVE HexVal(_)
HexVal(digits) ==
    IF digits = <<>> THEN 0
    ELSE 16 * HexVal(SubSeq(digits, 1, Len(digits) - 1))
         + HexDigitVal(digits[Len(digits)])

\* the parts of the names of the model, in the order of Python's string "<"
PartOrder == <<"0", "1", "2", "3", "32fseg", "4", "5", "6", "7", "8", "9",
               "a", "asm", "b", "bss", "c", "d", "data", "data16",
               "data32seg", "discard", "e", "entry", "f", "fixedaddr", "g",
               "i", "init", "l", "r", "rodata", "runtime", "s", "t", "text",
               "v", "varfseg", "varinit", "varlow", "x">>

PartRank(p) == CHOOSE i \in 1..Len(PartOrder) : PartOrder[i] = p

\* a < b on names
RECURSIVE NameLess(_, _)
NameLess(a, b) ==
    IF b = <<>> THEN FALSE
    ELSE IF a = <<>> THEN TRUE
    ELSE IF a[1] # b[1] THEN PartRank(a[1]) < PartRank(b[1])
    ELSE NameLess(Tail(a), Tail(b))

\* list.sort (stable) under the order Less
StableSort(seq, Less(_, _)) ==
    LET n == Len(seq)
        rank(i) == Cardinality({j \in 1..n :
                        \/ Less(seq[j], seq[i])
                        \/ (~Less(seq[i], seq[j]) /\ j < i)}) + 1
    IN [k \in 1..n |-> seq[CHOOSE i \in 1..n : rank(i) = k]]

\* the seq without its i-th element
RemoveAt(seq, i) == SubSeq(seq, 1, i - 1) \o SubSeq(seq, i + 1, Len(seq))

\* the set of the elements of seq
Range(seq) == {seq[i] : i \in 1..Len(seq)}

----------------------------------------------------------------------------
(* Determine section locations *)

\* a & b on non-negative integers
RECURSIVE BitAnd(_, _)
BitAnd(a, b) ==
    IF a = 0 \/ b = 0 THEN 0
    ELSE (a % 2) * (b % 2) + 2 * BitAnd(a \div 2, b \div 2)

\* (pos + mask) & ~mask
alignpos(pos, alignbytes) ==
    LET mask == alignbytes - 1
    IN (pos + mask) - BitAnd(pos + mask, mask)

\* Evaluation note: TLC evaluates a LET definition again at each use and an
\* operator argument once, so a value used several times is passed as an
\* argument.

\* Determine the final addresses for a list of sections that end at an
\* address.  The first loop of setSectionsStart: <<minalign, totspace>>
RECURSIVE SpaceOf(_, _, _, _)
SpaceOf(S, ids, minalign, totspace) ==
    IF ids = <<>> THEN <<minalign, totspace>>
    ELSE SpaceOf(S, Tail(ids),
                 IF S[Head(ids)].align > minalign THEN S[Head(ids)].align
                 ELSE minalign,
                 alignpos(totspace, S[Head(ids)].align) + S[Head(ids)].size)

\* int(a / b)
IntDiv(a, b) == IF a >= 0 THEN a \div b ELSE -((-a) \div b)

\* The second loop of setSectionsStart; PlaceAt is its body, at the aligned
\* curaddr
RECURSIVE PlaceFrom(_, _, _, _)
RECURSIVE PlaceAt(_, _, _, _)
PlaceAtNoSegment(S, ids, at, segoffset) ==
    PlaceFrom([S EXCEPT ![Head(ids)].finalloc = at,
                        ![Head(ids)].finalsegloc = at],
              Tail(ids), at + S[Head(ids)].size, segoffset)

PlaceAt(S, ids, at, segoffset) ==
    PlaceFrom([S EXCEPT ![Head(ids)].finalloc = at,
                        ![Head(ids)].finalsegloc = at - segoffset],
              Tail(ids), at + S[Head(ids)].size, segoffset)

PlaceFrom(S, ids, curaddr, segoffset) ==
    IF ids = <<>> THEN S
    ELSE PlaceAt(S, ids, alignpos(curaddr, S[Head(ids)].align), segoffset)

\* startaddr = int((endaddr - totspace) / minalign) * minalign
StartAddr(endaddr, totspace, minalign) ==
    IntDiv(endaddr - totspace, minalign) * minalign

SetStartFrom(S, ids, startaddr, minalign, segoffset) ==
    [S |-> PlaceFrom(S, ids, startaddr, segoffset),
     startaddr |-> startaddr, minalign |-> minalign]

SetStartSpace(S, ids, endaddr, sp, segoffset) ==
    SetStartFrom(S, ids, StartAddr(endaddr, sp[2], sp[1]), sp[1], segoffset)

setSectionsStart(S, ids, endaddr, minalign, segoffset) ==
    SetStartSpace(S, ids, endaddr, SpaceOf(S, ids, minalign, 0), segoffset)

----------------------------------------------------------------------------
(* Layout the 16bit code: fitSections *)

\* int(section.name[11:], 16)
FixedOffset(name) == HexVal(SubSeq(name, 2, Len(name)))

\* the assignments of the first loop of fitSections to one section
SetFixedAt(S, id, addr) ==
    [S EXCEPT ![id].finalloc = addr + BUILD_BIOS_ADDR, ![id].finalsegloc = addr]

\* the first loop of fitSections, up to the section numbered upto of ids
RECURSIVE SetFixed(_, _, _)
SetFixed(S, ids, upto) ==
    IF upto = 0 THEN S
    ELSE IF StartsWith(S[ids[upto]].name, <<"fixedaddr", "">>)
    THEN SetFixedAt(SetFixed(S, ids, upto - 1), ids[upto],
                    FixedOffset(S[ids[upto]].name))
    ELSE SetFixed(S, ids, upto - 1)

\* avail = nextaddr - addr - section.size
Avail(nextaddr, addr, size) == nextaddr - addr - size

\* fixedAddr = [(freespace, section), ...] before it is sorted
FreeSpace(S, fixedsections) ==
    [i \in 1..Len(fixedsections) |->
        <<Avail(IF i = Len(fixedsections) THEN BUILD_BIOS_SIZE
                ELSE fixedsections[i + 1][1],
                fixedsections[i][1], S[fixedsections[i][2]].size),
          fixedsections[i][2]>>]

\* (size, align, name) < (size, align, name)
FitLess(a, b) ==
    \/ a.size < b.size
    \/ a.size = b.size /\ a.align < b.align
    \/ a.size = b.size /\ a.align = b.align /\ NameLess(a.name, b.name)

\* the for loop over canrelocate: the index of the last section that fits, or 0
RECURSIVE CanFit(_, _, _, _, _, _)
CanFit(S, canrelocate, i, addpos, nextfixedaddr, canfit) ==
    IF i > Len(canrelocate) THEN canfit
    ELSE IF addpos + S[canrelocate[i]].size > nextfixedaddr THEN canfit
    ELSE IF alignpos(addpos, S[canrelocate[i]].align) + S[canrelocate[i]].size
                > nextfixedaddr
    THEN CanFit(S, canrelocate, i + 1, addpos, nextfixedaddr, canfit)
    ELSE CanFit(S, canrelocate, i + 1, addpos, nextfixedaddr, i)

\* where the packer puts a section it found to fit at addpos
FitLoc(addpos, align) == addpos

\* the assignments to a section that was found to fit
PlaceFit(S, id, loc) ==
    [S EXCEPT ![id].finalloc = loc + BUILD_BIOS_ADDR, ![id].finalsegloc = loc]

\* the while loop that fills the gap after one fixed section; FillFound is
\* its body once the for loop has left canfit, the c-th of canrelocate
RECURSIVE FillGap(_, _, _, _)
RECURSIVE FillFound(_, _, _, _, _)
FillFound(st, fixedid, addpos, nextfixedaddr, c) ==
    IF c = 0 THEN st
    ELSE FillGap([S |-> PlaceFit(st.S, st.canrelocate[c],
                                 FitLoc(addpos, st.S[st.canrelocate[c]].align)),
                  canrelocate |-> RemoveAt(st.canrelocate, c),
                  totalused |-> st.totalused + st.S[st.canrelocate[c]].size,
                  fitgap |-> [st.fitgap EXCEPT ![st.canrelocate[c]] = fixedid]],
                 fixedid,
                 alignpos(addpos, st.S[st.canrelocate[c]].align)
                     + st.S[st.canrelocate[c]].size,
                 nextfixedaddr)

FillGap(st, fixedid, addpos, nextfixedaddr) ==
    FillFound(st, fixedid, addpos, nextfixedaddr,
              CanFit(st.S, st.canrelocate, 1, addpos, nextfixedaddr, 0))

\* the loop over fixedAddr
RECURSIVE FillAll(_, _, _)
FillAll(st, fixedAddr, k) ==
    IF k > Len(fixedAddr) THEN st
    ELSE FillAll(FillGap([st EXCEPT !.totalused = @ + st.S[fixedAddr[k][2]].size],
                         fixedAddr[k][2],
                         st.S[fixedAddr[k][2]].finalsegloc + st.S[fixedAddr[k][2]].size,
                         st.S[fixedAddr[k][2]].finalsegloc + st.S[fixedAddr[k][2]].size
                             + fixedAddr[k][1]),
                 fixedAddr, k + 1)

\* <<addr, section>> of the i-th of the fixed sections named
FixedEntries(S, named) ==
    [i \in 1..Len(named) |-> <<FixedOffset(S[named[i]].name), named[i]>>]

\* fixedsections, sorted by address
SortedFixed(S, ids) ==
    StableSort(FixedEntries(S, SelectSeq(ids,
                   LAMBDA id : StartsWith(S[id].name, <<"fixedaddr", "">>))),
               LAMBDA a, b : a[1] < b[1])

NoGap(S) == [i \in DOMAIN S |-> 0]

\* the indexes in ids of the fixed sections whose alignment is not 1
Misaligned(S, ids) ==
    {i \in 1..Len(ids) : /\ StartsWith(S[ids[i]].name, <<"fixedaddr", "">>)
                         /\ S[ids[i]].align # 1}

\* the end of fitSections: the statistics and the return
FitReport(st, firstfixed) ==
    IF BUILD_BIOS_SIZE - firstfixed = 0
    THEN \* (float(slack) / total): ZeroDivisionError
         [status |-> "crash", S |-> st.S, firstfixed |-> None, fitgap |-> st.fitgap]
    ELSE [status |-> "ok", S |-> st.S, firstfixed |-> firstfixed + BUILD_BIOS_ADDR,
          fitgap |-> st.fitgap]

FitSorted(S, ids, fixedsections, canrelocate, bad) ==
    IF bad # {}
    THEN \* sys.exit(1) at the first fixed section whose alignment is not 1
         [status |-> "exit",
          S |-> SetFixed(S, ids, CHOOSE i \in bad : \A j \in bad : i <= j),
          firstfixed |-> None, fitgap |-> NoGap(S)]
    ELSE IF fixedsections = <<>>
    THEN \* fixedsections[0]: IndexError
         [status |-> "crash", S |-> S, firstfixed |-> None, fitgap |-> NoGap(S)]
    ELSE FitReport(FillAll([S |-> SetFixed(S, ids, Len(ids)),
                            canrelocate |-> canrelocate,
                            totalused |-> 0, fitgap |-> NoGap(S)],
                           StableSort(FreeSpace(S, fixedsections),
                                      LAMBDA a, b : a[1] < b[1]),
                           1),
                   fixedsections[1][1])

fitSections(S, ids, fillsections) ==
    FitSorted(S, ids, SortedFixed(S, ids),
              StableSort(fillsections, LAMBDA a, b : FitLess(S[a], S[b])),
              Misaligned(S, ids))

----------------------------------------------------------------------------
(* doLayout *)

\* Return the subset of sections with a given category
getSectionsCategory(S, ids, category) ==
    SelectSeq(ids, LAMBDA id : S[id].category = category)

\* Return the subset of sections with a given fileid
getSectionsFileid(S, ids, fileid) ==
    SelectSeq(ids, LAMBDA id : S[id].fileid = fileid)

\* Return the subset of sections with a given name prefix
getSectionsPrefix(S, ids, prefix) ==
    SelectSeq(ids, LAMBDA id : StartsWith(S[id].name, prefix))

Zones == {"16", "32seg", "32textfseg", "32fseg", "32flat", "32init", "32low"}

\* the locals of doLayout before it runs; ends[z] is the endaddr of the
\* latest setSectionsStart call for zone z
LayInit(genreloc) ==
    [genreloc |-> genreloc, firstfixed |-> None, sec16_start |-> None, sec32seg_start |-> None,
     sec32textfseg_start |-> None, sec32fseg_start |-> None,
     sec32flat_start |-> None, sec32init_start |-> None,
     sec32init_align |-> None, zonefseg_start |-> None, zonefseg_end |-> None,
     final_readonly_start |-> None, sec32low_start |-> None,
     sec32low_end |-> None, zonelow_base |-> None, relocdelta |-> None,
     final_sec32low_start |-> None,
     ends |-> [z \in Zones |-> None],
     first_zonefseg_start |-> None, first_zonefseg_end |-> None,
     first_sec32flat_start |-> None, first_sec32init_start |-> None,
     relaid |-> FALSE, returned |-> FALSE]

\* the sections of the 16bit zone that fitSections did not place
Sections16(S, ids) ==
    LET sections16 == getSectionsCategory(S, ids, "16")
    IN getSectionsPrefix(S, sections16, <<"text", "">>)
       \o getSectionsPrefix(S, sections16, <<"rodata">>)
       \o getSectionsPrefix(S, sections16, <<"data16", "">>)

Sections32seg(S, ids) ==
    LET sections32seg == getSectionsCategory(S, ids, "32seg")
    IN getSectionsPrefix(S, sections32seg, <<"text", "">>)
       \o getSectionsPrefix(S, sections32seg, <<"rodata">>)
       \o getSectionsPrefix(S, sections32seg, <<"data32seg", "">>)

\* textsections + rodatasections + datasections + bsssections of a flat category
SectionsFlat(S, ids, category) ==
    LET flat == getSectionsCategory(S, ids, category)
    IN getSectionsPrefix(S, flat, <<"text", "">>)
       \o getSectionsPrefix(S, flat, <<"rodata">>)
       \o getSectionsPrefix(S, flat, <<"data", "">>)
       \o getSectionsPrefix(S, flat, <<"bss", "">>)

\* Determine 16bit positions: the fixed sections and the sections that fill
\* the gaps between them
FitDone(r) ==
    /\ allsections' = r.S
    /\ fitgap' = r.fitgap
    /\ lay' = [lay EXCEPT !.firstfixed = r.firstfixed]
    /\ pc' = IF r.status = "ok" THEN "lay16" ELSE r.status

Fit ==
    /\ pc = "fit"
    /\ FitDone(fitSections(allsections,
                           getSectionsCategory(allsections, sections, "fixed"),
                           getSectionsPrefix(allsections,
                               getSectionsCategory(allsections, sections, "16"),
                               <<"text", "">>)))
    /\ UNCHANGED <<inputVars, reachVars, sections, written, script>>

\* one setSectionsStart call of doLayout and the locals it assigns
LayDone(r, zone, endaddr, startvar) ==
    /\ allsections' = r.S
    /\ lay' = [lay EXCEPT ![startvar] = r.startaddr,
                          !.ends[zone] = endaddr,
                          !.sec32init_align =
                              IF zone = "32init" THEN r.minalign ELSE @]

LayZone(at, zone, ids, endaddr, minalign, segoffset, startvar, next) ==
    /\ pc = at
    /\ LayDone(setSectionsStart(allsections, ids, endaddr, minalign, segoffset),
               zone, endaddr, startvar)
    /\ pc' = next
    /\ UNCHANGED <<inputVars, reachVars, sections, written, script, fitgap>>

Lay16Again ==
    LayZone("lay16", "16", Sections16(allsections, sections),
            lay.firstfixed, 1, BUILD_BIOS_ADDR, "sec16_start", "lay32seg")

Lay16 ==
    LayZone("lay16", "16",
            SelectSeq(Sections16(allsections, sections),
                      LAMBDA id : allsections[id].finalloc = None),
            lay.firstfixed, 1, BUILD_BIOS_ADDR, "sec16_start", "lay32seg")

\* Determine 32seg positions
Lay32seg ==
    LayZone("lay32seg", "32seg", Sections32seg(allsections, sections),
            lay.sec16_start, 1, BUILD_BIOS_ADDR, "sec32seg_start", "lay32textfseg")

\* Determine 32bit "fseg memory" data positions
Lay32textfseg ==
    LayZone("lay32textfseg", "32textfseg",
            getSectionsCategory(allsections, sections, "32textfseg"),
            lay.sec32seg_start, 16, 0, "sec32textfseg_start", "lay32fseg")

Lay32fseg ==
    LayZone("lay32fseg", "32fseg",
            getSectionsCategory(allsections, sections, "32fseg"),
            lay.sec32textfseg_start, 16, BUILD_BIOS_ADDR, "sec32fseg_start",
            "lay32flat")

\* Determine 32flat runtime positions
Lay32flat ==
    LayZone("lay32flat", "32flat", SectionsFlat(allsections, sections, "32flat"),
            lay.sec32fseg_start, 16, 0, "sec32flat_start", "lay32init")

\* Determine 32flat init positions
Lay32init ==
    LayZone("lay32init", "32init", SectionsFlat(allsections, sections, "32init"),
            lay.sec32flat_start, 16, 0, "sec32init_start", "zonefseg")

\* Determine location of ZoneFSeg memory.
ZoneFSegSet(zonefseg_start, zonefseg_end, short) ==
    /\ lay' = [lay EXCEPT
                  !.first_zonefseg_start = zonefseg_start,
                  !.first_zonefseg_end = zonefseg_end,
                  !.first_sec32flat_start = lay.sec32flat_start,
                  !.first_sec32init_start = lay.sec32init_start,
                  !.relaid = short,
                  !.zonefseg_end = IF short THEN lay.sec32fseg_start
                                   ELSE zonefseg_end,
                  !.zonefseg_start =
                      IF short THEN lay.sec32fseg_start - BUILD_MIN_BIOSTABLE
                      ELSE zonefseg_start]
    /\ pc' = IF short THEN "relay32flat" ELSE "laylow"
    /\ UNCHANGED <<inputVars, reachVars, allsections, sections, written, script, fitgap>>

\* zonefseg_end before the test for the minimum space
FirstZoneFSegEnd ==
    IF ~lay.genreloc THEN lay.sec32init_start ELSE lay.sec32flat_start

\* a doLayout that does not force a minimum space
ZoneFSegNoMinimum ==
    /\ pc = "zonefseg"
    /\ ZoneFSegSet(BUILD_BIOS_ADDR, FirstZoneFSegEnd, FALSE)

ZoneFSeg ==
    /\ pc = "zonefseg"
    /\ ZoneFSegSet(BUILD_BIOS_ADDR, FirstZoneFSegEnd,
                   BUILD_BIOS_ADDR + BUILD_MIN_BIOSTABLE > FirstZoneFSegEnd)

Relay32flatSameEnd ==
    LayZone("relay32flat", "32flat", SectionsFlat(allsections, sections, "32flat"),
            lay.sec32fseg_start, 16, 0, "sec32flat_start", "relay32init")

\* Not enough ZoneFSeg space - force a minimum space.
Relay32flat ==
    LayZone("relay32flat", "32flat", SectionsFlat(allsections, sections, "32flat"),
            lay.zonefseg_start, 16, 0, "sec32flat_start", "relay32init")

Relay32initOldEnd ==
    LayZone("relay32init", "32init", SectionsFlat(allsections, sections, "32init"),
            lay.first_sec32flat_start, 16, 0, "sec32init_start", "laylow")

Relay32init ==
    LayZone("relay32init", "32init", SectionsFlat(allsections, sections, "32init"),
            lay.sec32flat_start, 16, 0, "sec32init_start", "laylow")

Min(a, b) == IF a < b THEN a ELSE b
Max(a, b) == IF a > b THEN a ELSE b

\* final_readonly_start = min(BUILD_BIOS_ADDR, ...)
FinalReadonlyStart ==
    IF ~lay.genreloc THEN Min(BUILD_BIOS_ADDR, lay.sec32init_start)
    ELSE Min(BUILD_BIOS_ADDR, lay.sec32flat_start)

ZoneLowBase(final_sec32low_end) ==
    IF config.CONFIG_MALLOC_UPPERMEMORY
    THEN Max(BUILD_ROM_START, alignpos(final_sec32low_end - 64 * 1024, 2 * 1024))
    ELSE final_sec32low_end - 64 * 1024

LowDone(r, final_readonly_start, zonelow_base, relocdelta) ==
    /\ allsections' = r.S
    /\ lay' = [lay EXCEPT
                  !.final_readonly_start = final_readonly_start,
                  !.sec32low_start = r.startaddr,
                  !.sec32low_end = lay.sec32init_start,
                  !.zonelow_base = zonelow_base,
                  !.relocdelta = relocdelta,
                  !.final_sec32low_start = r.startaddr + relocdelta,
                  !.ends["32low"] = lay.sec32init_start,
                  !.returned = TRUE]

LowAt(final_readonly_start, zonelow_base, relocdelta) ==
    LowDone(setSectionsStart(allsections,
                             getSectionsCategory(allsections, sections, "32low"),
                             lay.sec32init_start, 16, zonelow_base - relocdelta),
            final_readonly_start, zonelow_base, relocdelta)

LowEnd(final_readonly_start, final_sec32low_end) ==
    LowAt(final_readonly_start, ZoneLowBase(final_sec32low_end),
          final_sec32low_end - lay.sec32init_start)

\* Determine "low memory" data positions, and return
LayLow ==
    /\ pc = "laylow"
    /\ LowEnd(FinalReadonlyStart,
              IF config.CONFIG_MALLOC_UPPERMEMORY THEN FinalReadonlyStart
              ELSE BUILD_LOWRAM_END)
    /\ pc' = "write16"
    /\ UNCHANGED <<inputVars, reachVars, sections, written, script, fitgap>>

doLayout ==
    \/ Fit \/ Lay16 \/ Lay32seg \/ Lay32textfseg \/ Lay32fseg \/ Lay32flat
    \/ Lay32init \/ ZoneFSeg \/ Relay32flat \/ Relay32init \/ LayLow

----------------------------------------------------------------------------
(* Sections as parseObjDump creates them, and main's categories *)

Section(name, fileid, size, align, relocs) ==
    [name |-> name, size |-> size, align |-> align, fileid |-> fileid,
     relocs |-> relocs, finalloc |-> None, finalsegloc |-> None,
     category |-> "None"]

\* the category main gives a kept section
Category(section, isruntime) ==
    IF StartsWith(section.name, <<"data", "varlow", "">>) THEN "32low"
    ELSE IF StartsWith(section.name, <<"data", "varfseg", "">>) THEN "32fseg"
    ELSE IF StartsWith(section.name, <<"text", "32fseg", "">>) THEN "32textfseg"
    ELSE IF StartsWith(section.name, <<"fixedaddr", "">>) THEN "fixed"
    ELSE IF section.fileid = "32flat" /\ ~isruntime THEN "32init"
    ELSE section.fileid

\* the loop of main that sets the category of every kept section
Categorized(S, kept, runtime) ==
    [i \in DOMAIN S |->
        IF i \in kept THEN [S[i] EXCEPT !.category = Category(S[i], i \in runtime)]
        ELSE S[i]]

\* the hexadecimal digits of n, as the names of fixed sections hold them
RECURSIVE HexStr(_)
HexStr(n) ==
    IF n < 16 THEN <<HexDigits[n + 1]>>
    ELSE HexStr(n \div 16) \o <<HexDigits[(n % 16) + 1]>>

FixedName(offset) == <<"fixedaddr">> \o HexStr(offset)

NoSymbols == [f \in {"16", "32seg", "32flat"} |-> <<>>]
NoConfig == [CONFIG_COREBOOT |-> FALSE, CONFIG_CSM |-> FALSE,
             CONFIG_MALLOC_UPPERMEMORY |-> FALSE]

----------------------------------------------------------------------------
(* Detection of unused sections and init sections *)

\* a Symbol object; section is a section id, or 0 for None
Symbol(name, offset, section) ==
    [name |-> name, offset |-> offset, section |-> section]

\* what checkKeepSym returns when it returns 0
NotKept == [ret |-> 0, symbol |-> Symbol(<<>>, 0, 0)]

\* symbolname.startswith('_cfunc')
MustBeCFunc(symbolname) == symbolname # <<>> /\ symbolname[1] = "_cfunc"

\* symbolname.startswith('_cfunc' + fileid + '_')
HasCFuncPrefix(symbolname, fileid) ==
    /\ Len(symbolname) >= 3
    /\ SubSeq(symbolname, 1, 3) = <<"_cfunc", fileid, "_">>

\* isdestcfunc
IsDestCFunc(name) ==
    StartsWith(name, <<"text", "">>) /\ ~StartsWith(name, <<"text", "asm", "">>)

\* a checkKeepSym that takes a symbol whatever its section
KeepFoundAnySection(S, syms, symbolname, mustbecfunc, isxref) ==
    IF \/ symbolname \notin DOMAIN syms
       \/ syms[symbolname].section = 0
       \/ StartsWith(S[syms[symbolname].section].name, <<"discard", "">>)
    THEN NotKept
    ELSE [ret |-> 1, symbol |-> syms[symbolname]]

\* the end of checkKeepSym, from syms.get(symbolname) on
KeepFound(S, syms, symbolname, mustbecfunc, isxref) ==
    IF \/ symbolname \notin DOMAIN syms
       \/ syms[symbolname].section = 0
       \/ StartsWith(S[syms[symbolname].section].name, <<"discard", "">>)
    THEN NotKept
    ELSE IF \/ (mustbecfunc /\ ~IsDestCFunc(S[syms[symbolname].section].name))
            \/ (~mustbecfunc /\ IsDestCFunc(S[syms[symbolname].section].name)
                /\ isxref)
    THEN NotKept
    ELSE [ret |-> 1, symbol |-> syms[symbolname]]

\* the name checkKeepSym looks up
KeepNameByResolved(reloc) == reloc.symbol.name

KeepName(reloc) == reloc.symbolname

\* Find and keep the section associated with a symbol (if available).
checkKeepSymNamed(S, symbolname, syms, fileid, isxref) ==
    IF MustBeCFunc(symbolname)
    THEN IF ~HasCFuncPrefix(symbolname, fileid) THEN NotKept
         ELSE KeepFound(S, syms, SubSeq(symbolname, 4, Len(symbolname)), TRUE, isxref)
    ELSE KeepFound(S, syms, symbolname, FALSE, isxref)

checkKeepSym(S, reloc, syms, fileid, isxref) ==
    checkKeepSymNamed(S, KeepName(reloc), syms, fileid, isxref)

\* the loop of checkKeep over the other files, from the k-th of FileIds on
RECURSIVE KeepXref(_, _, _, _, _)
KeepXrefTry(S, reloc, section, tables, k, r) ==
    IF r.ret = 1 THEN r ELSE KeepXref(S, reloc, section, tables, k + 1)

KeepXref(S, reloc, section, tables, k) ==
    IF k > Len(FileIds) THEN NotKept
    ELSE IF FileIds[k] = section.fileid THEN KeepXref(S, reloc, section, tables, k + 1)
    ELSE KeepXrefTry(S, reloc, section, tables, k,
                     checkKeepSym(S, reloc, tables[FileIds[k]], FileIds[k], TRUE))

KeepOwn(S, reloc, section, tables, r) ==
    IF r.ret = 1 THEN r ELSE KeepXref(S, reloc, section, tables, 1)

\* Resolve a relocation and check if it should be kept in the final binary.
checkKeep(S, reloc, section, tables) ==
    KeepOwn(S, reloc, section, tables,
            checkKeepSym(S, reloc, tables[section.fileid], section.fileid, FALSE))

\* what checkRuntime yields when it leaves the program by sys.exit(1)
SysExit == 2

\* a checkRuntime that follows no edge
checkRuntimeNoEdge(S, reloc) ==
    IF reloc.symbol.section # 0
       /\ ~Contains(S[reloc.symbol.section].name, <<"init">>)
       /\ Contains(S[reloc.symbol.section].name, <<"data", "varinit">>)
    THEN SysExit
    ELSE 0

\* a checkRuntime without the test for ".init."
checkRuntimeIntoInit(S, reloc) ==
    IF reloc.symbol.section = 0
    THEN 0
    ELSE IF Contains(S[reloc.symbol.section].name, <<"data", "varinit">>)
    THEN SysExit
    ELSE 1

\* Find "runtime" sections (ie, not init only sections): 0, 1, or SysExit
checkRuntime(S, reloc) ==
    IF reloc.symbol.section = 0 \/ Contains(S[reloc.symbol.section].name, <<"init">>)
    THEN 0
    ELSE IF Contains(S[reloc.symbol.section].name, <<"data", "varinit">>)
    THEN SysExit
    ELSE 1

\* findReachable's state: the sections, the keys of its dict, the work list
\* and whether the run was left by sys.exit
VisitAgain(st, nextsection) ==
    [st EXCEPT !.anchors = @ \cup {nextsection},
               !.pending = Append(@, nextsection)]

Visit(st, nextsection) ==
    IF nextsection \in st.anchors THEN st
    ELSE [st EXCEPT !.anchors = @ \cup {nextsection},
                    !.pending = Append(@, nextsection)]

\* the body of the loop over section.relocs with checkreloc = checkKeep
KeepReloc(st, id, i, r) ==
    IF r.ret = 0 THEN st
    ELSE Visit([st EXCEPT !.S[id].relocs[i].symbol = r.symbol], r.symbol.section)

RECURSIVE KeepRelocs(_, _, _, _)
KeepRelocs(st, id, i, tables) ==
    IF i > Len(st.S[id].relocs) THEN st
    ELSE KeepRelocs(KeepReloc(st, id, i,
                              checkKeep(st.S, st.S[id].relocs[i], st.S[id], tables)),
                    id, i + 1, tables)

\* the body of the loop over section.relocs with checkreloc = checkRuntime
RuntimeReloc(st, id, i, r) ==
    IF r = SysExit THEN [st EXCEPT !.exit = TRUE]
    ELSE IF r = 0 THEN st
    ELSE Visit(st, st.S[id].relocs[i].symbol.section)

RECURSIVE RuntimeRelocs(_, _, _)
RuntimeRelocs(st, id, i) ==
    IF st.exit \/ i > Len(st.S[id].relocs) THEN st
    ELSE RuntimeRelocs(RuntimeReloc(st, id, i,
                                    checkRuntime(st.S, st.S[id].relocs[i])),
                       id, i + 1)

\* the ids of a set, as a list in the order of allsections
InOrder(ids) ==
    SelectSeq([i \in 1..Len(allsections) |-> i], LAMBDA i : i \in ids)

\* the anchors of the kept-section traversal: [entrysym.section] and the
\* fixed sections, as the keys of a dict, in insertion order
KeepAnchors(entry) ==
    <<entry.section>>
    \o SelectSeq([i \in 1..Len(allsections) |-> i],
                 LAMBDA i : /\ i # entry.section
                            /\ StartsWith(allsections[i].name, <<"fixedaddr", "">>))

\* main's choice of the entry symbol
EntryName ==
    IF config.CONFIG_COREBOOT THEN <<"entry_elf">>
    ELSE IF config.CONFIG_CSM THEN <<"entry_csm">>
    ELSE <<"reset_vector">>

\* main, up to the call of findReachable for the sections to keep
StartKeep ==
    /\ pc = "start"
    /\ IF EntryName \notin DOMAIN symbols["16"]
          \/ symbols["16"][EntryName].section = 0
       THEN \* entrysym.section of None, or the relocs of None
            /\ pc' = "crash"
            /\ UNCHANGED <<entrysym, anchors, pending>>
       ELSE /\ entrysym' = symbols["16"][EntryName]
            /\ anchors' = Range(KeepAnchors(symbols["16"][EntryName]))
            /\ pending' = KeepAnchors(symbols["16"][EntryName])
            /\ pc' = "keep"
    /\ UNCHANGED <<allsections, symbols, config, keepsections, runtimesections,
                   sections, lay, written, script, fitgap, run, first>>

ReachDone(st, next) ==
    /\ allsections' = st.S
    /\ anchors' = st.anchors
    /\ pending' = st.pending
    /\ pc' = IF st.exit THEN "exit" ELSE next

\* one turn of the while loop of findReachable(anchorsections, checkKeep, symbols)
KeepStep ==
    /\ pc = "keep" /\ pending # <<>>
    /\ ReachDone(KeepRelocs([S |-> allsections, anchors |-> anchors,
                             pending |-> SubSeq(pending, 1, Len(pending) - 1),
                             exit |-> FALSE],
                            pending[Len(pending)], 1, symbols),
                 "keep")
    /\ UNCHANGED <<inputVars, keepsections, runtimesections, sections, lay,
                   written, script, fitgap, run, first>>

\* the anchors of the runtime traversal
IsRuntimeAnchor(name) ==
    \/ Contains(name, <<"data", "varlow">>)
    \/ Contains(name, <<"data", "varfseg">>)
    \/ Contains(name, <<"fixedaddr">>)
    \/ Contains(name, <<"runtime">>)

\* findReachable returns the kept sections; main lists them and starts the
\* runtime traversal
KeepDone ==
    /\ pc = "keep" /\ pending = <<>>
    /\ keepsections' = anchors
    /\ sections' = InOrder(anchors)
    /\ anchors' = {i \in anchors : IsRuntimeAnchor(allsections[i].name)}
    /\ pending' = SelectSeq(InOrder(anchors),
                            LAMBDA i : IsRuntimeAnchor(allsections[i].name))
    /\ pc' = "runtime"
    /\ UNCHANGED <<inputVars, allsections, runtimesections, lay, written, script, fitgap,
                   run, first>>

\* one turn of the while loop of findReachable(anchorsections, checkRuntime, None)
RuntimeStep ==
    /\ pc = "runtime" /\ pending # <<>>
    /\ ReachDone(RuntimeRelocs([S |-> allsections, anchors |-> anchors,
                                pending |-> SubSeq(pending, 1, Len(pending) - 1),
                                exit |-> FALSE],
                               pending[Len(pending)], 1),
                 "runtime")
    /\ UNCHANGED <<inputVars, keepsections, runtimesections, sections, lay,
                   written, script, fitgap, run, first>>

\* findReachable returns the runtime sections; main sets the categories and
\* genreloc
Categorize ==
    /\ pc = "runtime" /\ pending = <<>>
    /\ runtimesections' = anchors
    /\ allsections' = Categorized(allsections, keepsections, anchors)
    /\ lay' = LayInit(<<"_reloc_abs_start">> \in DOMAIN symbols["32flat"])
    /\ pc' = "fit"
    /\ UNCHANGED <<inputVars, anchors, pending, keepsections, sections, written, script,
                   fitgap, run, first>>

\* the traversals and the categories, once more, on what the first run left
Rerun ==
    /\ pc = "fit" /\ run = 1
    /\ first' = [keepsections |-> keepsections,
                 runtimesections |-> runtimesections,
                 category |-> [i \in DOMAIN allsections |-> allsections[i].category]]
    /\ run' = 2
    /\ pc' = "start"
    /\ UNCHANGED <<inputVars, allsections, anchors, pending, keepsections,
                   runtimesections, sections, lay, written, script, fitgap>>

----------------------------------------------------------------------------
(* Linker script output *)

\* outXRefs(sections of fileid, useseg) adds None to a number: a cross
\* reference to a section that was given no address
XRefFails(fileid) ==
    \E id \in Range(getSectionsFileid(allsections, sections, fileid)) :
        \E k \in DOMAIN allsections[id].relocs :
            LET reloc == allsections[id].relocs[k]
            IN /\ reloc.symbol.section # 0
               /\ \/ allsections[reloc.symbol.section].fileid # allsections[id].fileid
                  \/ reloc.symbol.name # reloc.symbolname
               /\ allsections[reloc.symbol.section].finalloc = None

\* outSections(sections of fileid, useseg=1) formats None with %x
SectionsFail(fileid) ==
    \E id \in Range(getSectionsFileid(allsections, sections, fileid)) :
        allsections[id].finalsegloc = None

\* getRelocs(from, to, type) adds a relocation's offset to None; type
\* "any" is type=None
RelocsFail(from, to, type) ==
    \E id \in from :
        /\ allsections[id].finalloc = None
        /\ \E k \in DOMAIN allsections[id].relocs :
              /\ allsections[id].relocs[k].symbol.section \in to
              /\ type = "any" \/ allsections[id].relocs[k].type = type

InitSections == Range(getSectionsCategory(allsections, sections, "32init"))

NonInitSections == Range(sections) \ InitSections

\* The part of getRelocs for one section: the positions of its relocations
\* into tosection of the given type ("any" is type=None), in their order
RelocsAnyType(section, tosection, type) ==
    LET hit(reloc) == reloc.symbol.section \in tosection
        found == SelectSeq(section.relocs, hit)
    IN [k \in DOMAIN found |-> section.finalloc + found[k].offset]

SectionRelocs(section, tosection, type) ==
    LET hit(reloc) == /\ reloc.symbol.section \in tosection
                      /\ type = "any" \/ reloc.type = type
        found == SelectSeq(section.relocs, hit)
    IN [k \in DOMAIN found |-> section.finalloc + found[k].offset]

\* getRelocs(sections, tosection, type): sections is a dictionary, walked
\* in the order its keys were inserted
RECURSIVE getRelocs(_, _, _, _)
getRelocs(S, ids, tosection, type) ==
    IF ids = <<>> THEN <<>>
    ELSE SectionRelocs(S[Head(ids)], tosection, type)
             \o getRelocs(S, Tail(ids), tosection, type)

\* strRelocs(outname, outrel, relocs): relocs.sort(), one LONG per entry
strRelocs(outname, outrel, relocs) ==
    LET less(a, b) == a < b
    IN [outname |-> outname, outrel |-> outrel,
        relocs |-> StableSort(relocs, less)]

\* relocstr and sec32all_start of writeLinkerScripts
RelocStr(absrelocs, relrelocs, initrelocs) ==
    <<strRelocs("_reloc_abs", "code32init_start", absrelocs),
      strRelocs("_reloc_rel", "code32init_start", relrelocs),
      strRelocs("_reloc_init", "code32flat_start", initrelocs)>>

GenRelocs(initsections, noninitsections) ==
    LET absrelocs == getRelocs(allsections, initsections,
                               Range(initsections), "R_386_32")
        relrelocs == getRelocs(allsections, initsections,
                               Range(noninitsections), "R_386_PC32")
        initrelocs == getRelocs(allsections, noninitsections,
                                Range(initsections), "any")
    IN [relocstr |-> RelocStr(absrelocs, relrelocs, initrelocs),
        code32flat_start |->
            lay.sec32low_start
                - Len(absrelocs \o relrelocs \o initrelocs) * 4]

NoScript == [relocstr |-> <<>>, code32flat_start |-> None]

Script32flat ==
    IF lay.genreloc
    THEN LET isinit(i) == i \in InitSections
             isother(i) == i \notin InitSections
         IN GenRelocs(SelectSeq(sections, isinit), SelectSeq(sections, isother))
    ELSE [relocstr |-> <<>>, code32flat_start |-> lay.sec32low_start]

WriteDone(fails, name, next) ==
    /\ pc' = IF fails THEN "crash" ELSE next
    /\ written' = IF fails THEN written ELSE Append(written, name)

\* Write 16bit linker script
Write16 ==
    /\ pc = "write16"
    /\ WriteDone(XRefFails("16") \/ SectionsFail("16"), "out16", "write32seg")
    /\ UNCHANGED <<inputVars, reachVars, allsections, sections, lay, script,
                   fitgap>>

\* Write 32seg linker script
Write32seg ==
    /\ pc = "write32seg"
    /\ WriteDone(XRefFails("32seg") \/ SectionsFail("32seg"), "out32seg",
                 "write32flat")
    /\ UNCHANGED <<inputVars, reachVars, allsections, sections, lay, script,
                   fitgap>>

\* Write 32flat linker script
Write32flat ==
    /\ pc = "write32flat"
    /\ WriteDone(\/ /\ lay.genreloc
                    /\ \/ RelocsFail(InitSections, InitSections, "R_386_32")
                       \/ RelocsFail(InitSections, NonInitSections, "R_386_PC32")
                       \/ RelocsFail(NonInitSections, InitSections, "any")
                 \/ allsections[entrysym.section].finalloc = None
                 \/ XRefFails("32flat"),
                 "out32flat", "done")
    /\ script' = IF pc' = "done" THEN Script32flat ELSE script
    /\ UNCHANGED <<inputVars, reachVars, allsections, sections, lay, fitgap>>

writeLinkerScripts == Write16 \/ Write32seg \/ Write32flat

----------------------------------------------------------------------------
(* The packer on its own: two fixed sections near the top of the segment   *)
(* and three sections to fill the gaps with.  Section names are unique in  *)
(* a file, so the two fixed offsets differ.                                *)

MaxOff == 4
MaxFixSize == 2
MaxFillSize == 2
TopRoom == 8
Aligns == {1, 2, 4}

FitOffsets == {BUILD_BIOS_SIZE - TopRoom + k : k \in 0..MaxOff}

InitFit ==
    /\ \E o1, o2 \in FitOffsets, z1, z2 \in 0..MaxFixSize,
          s1, s2 \in 0..MaxFillSize, a1, a2 \in Aligns :
          /\ o1 # o2
          /\ allsections = Categorized(
              <<Section(FixedName(o1), "16", z1, 1, <<>>),
                Section(FixedName(o2), "16", z2, 1, <<>>),
                Section(<<"text", "b">>, "16", s1, a1, <<>>),
                Section(<<"text", "a">>, "16", s2, a2, <<>>),
                Section(<<"text", "c">>, "16", 1, 2, <<>>)>>,
              1..5, 1..5)
    /\ sections = <<1, 2, 3, 4, 5>>
    /\ symbols = NoSymbols
    /\ config = NoConfig
    /\ entrysym = None
    /\ pc = "fit"
    /\ anchors = {} /\ pending = <<>> /\ keepsections = {} /\ runtimesections = {}
    /\ lay = LayInit(FALSE)
    /\ written = <<>>
    /\ script = NoScript
    /\ fitgap = <<>>
    /\ run = 0 /\ first = <<>>

NextFit == Fit \/ Lay16

SpecFit == InitFit /\ [][NextFit]_vars

----------------------------------------------------------------------------
(* doLayout on its own: one kept section or two of every category, the      *)
(* first fixed offset near the minimum table size, so that the reserved    *)
(* range is short in some runs and long enough in others.                  *)

MaxSize == 2
SizeStep == 9
MinStep == 3
MaxStep == 3
OffsetStep == 16

LaySizes == {SizeStep * k : k \in 0..MaxSize}
LayOffsets ==
    {BUILD_MIN_BIOSTABLE + OffsetStep * k : k \in MinStep..(MinStep + MaxStep)}

InitLayout ==
    /\ \E o \in LayOffsets, sfseg, sflat, sinit \in LaySizes, slow \in {0, 10},
          aflat, a16 \in {1, 32} :
          allsections = Categorized(
              <<Section(FixedName(o), "16", 4, 1, <<>>),
                Section(FixedName(BUILD_BIOS_SIZE - 16), "16", 16, 1, <<>>),
                Section(<<"text", "a">>, "16", 8, 1, <<>>),
                Section(<<"data16", "d">>, "16", 6, a16, <<>>),
                Section(<<"bss", "x">>, "16", 2, 1, <<>>),
                Section(<<"text", "s">>, "32seg", 3, 4, <<>>),
                Section(<<"text", "32fseg", "t">>, "32flat", 5, 1, <<>>),
                Section(<<"data", "varfseg", "g">>, "32flat", sfseg, 2, <<>>),
                Section(<<"text", "r">>, "32flat", sflat, aflat, <<>>),
                Section(<<"bss", "b">>, "32flat", 4, 4, <<>>),
                Section(<<"text", "i">>, "32flat", sinit, 1, <<>>),
                Section(<<"data", "varlow", "l">>, "32flat", slow, 4, <<>>)>>,
              1..12, {1, 2, 8, 9, 10, 12})
    /\ sections = <<1, 2, 3, 4, 5, 6, 7, 8, 9, 10, 11, 12>>
    /\ symbols = NoSymbols
    /\ \E up \in BOOLEAN : config = [NoConfig EXCEPT !.CONFIG_MALLOC_UPPERMEMORY = up]
    /\ entrysym = None
    /\ pc = "fit"
    /\ anchors = {} /\ pending = <<>> /\ keepsections = {} /\ runtimesections = {}
    /\ \E genreloc \in BOOLEAN : lay = LayInit(genreloc)
    /\ written = <<>>
    /\ script = NoScript
    /\ fitgap = <<>>
    /\ run = 0 /\ first = <<>>

SpecLayout == InitLayout /\ [][doLayout]_vars

----------------------------------------------------------------------------
(* The whole program: the objdump output of three small object files.  The  *)
(* sections and the declared symbols are the same in every run; a run      *)
(* draws the relocation records, at most MaxRelocs of the candidates, the   *)
(* configuration, and a variant of the build.                               *)

MaxRelocs == 2

CFunc(fileid, name) == <<"_cfunc", fileid, "_", name>>

\* relocation records that the object files can hold: the section of the
\* record, its offset there, its type and the name it refers to
Candidates ==
    <<[owner |-> 1, offset |-> 1, type |-> "R_386_PC16", symbolname |-> CFunc("32flat", "f")],
      [owner |-> 1, offset |-> 3, type |-> "R_386_PC16", symbolname |-> CFunc("32flat", "i")],
      [owner |-> 1, offset |-> 5, type |-> "R_386_16", symbolname |-> <<"v">>],
      [owner |-> 1, offset |-> 7, type |-> "R_386_16", symbolname |-> <<"l">>],
      [owner |-> 1, offset |-> 9, type |-> "R_386_PC16", symbolname |-> CFunc("32seg", "s")],
      [owner |-> 1, offset |-> 11, type |-> "R_386_PC16", symbolname |-> <<"f">>],
      [owner |-> 1, offset |-> 13, type |-> "R_386_PC16", symbolname |-> CFunc("32flat", "t")],
      [owner |-> 1, offset |-> 15, type |-> "R_386_PC16", symbolname |-> <<"t">>],
      [owner |-> 2, offset |-> 0, type |-> "R_386_PC16", symbolname |-> CFunc("32flat", "f")],
      [owner |-> 2, offset |-> 2, type |-> "R_386_PC16", symbolname |-> CFunc("32flat", "i")],
      [owner |-> 2, offset |-> 4, type |-> "R_386_16", symbolname |-> <<"v">>],
      [owner |-> 2, offset |-> 6, type |-> "R_386_16", symbolname |-> <<"u">>],
      [owner |-> 3, offset |-> 0, type |-> "R_386_PC16", symbolname |-> CFunc("32flat", "f")],
      [owner |-> 3, offset |-> 2, type |-> "R_386_16", symbolname |-> <<"l">>],
      [owner |-> 3, offset |-> 4, type |-> "R_386_16", symbolname |-> CFunc("32flat", "l")],
      [owner |-> 5, offset |-> 0, type |-> "R_386_32", symbolname |-> <<"sb">>],
      [owner |-> 5, offset |-> 1, type |-> "R_386_32", symbolname |-> <<"d">>],
      [owner |-> 7, offset |-> 0, type |-> "R_386_PC32", symbolname |-> <<"i">>],
      [owner |-> 7, offset |-> 1, type |-> "R_386_32", symbolname |-> <<"v">>],
      [owner |-> 7, offset |-> 2, type |-> "R_386_PC32", symbolname |-> <<"t">>],
      [owner |-> 7, offset |-> 3, type |-> "R_386_32", symbolname |-> <<"l">>],
      [owner |-> 7, offset |-> 4, type |-> "R_386_32", symbolname |-> <<"o">>],
      [owner |-> 8, offset |-> 0, type |-> "R_386_PC32", symbolname |-> <<"f">>],
      [owner |-> 8, offset |-> 1, type |-> "R_386_32", symbolname |-> <<"v">>],
      [owner |-> 8, offset |-> 2, type |-> "R_386_32", symbolname |-> <<"i">>],
      [owner |-> 8, offset |-> 3, type |-> "R_386_PC32", symbolname |-> <<"t">>],
      [owner |-> 10, offset |-> 0, type |-> "R_386_PC32", symbolname |-> <<"i">>],
      [owner |-> 12, offset |-> 0, type |-> "R_386_32", symbolname |-> <<"i">>],
      [owner |-> 12, offset |-> 1, type |-> "R_386_32", symbolname |-> <<"o">>]>>

\* the sets of at most k candidates
RECURSIVE RelocSets(_)
RelocSets(k) ==
    IF k = 0 THEN {{}}
    ELSE RelocSets(k - 1)
         \cup {E \cup {c} : E \in RelocSets(k - 1), c \in DOMAIN Candidates}

\* the file of each section of the catalogue
FileOf ==
    <<"16", "16", "16", "16", "32seg", "32seg", "32flat", "32flat", "32flat",
      "32flat", "32flat", "32flat">>

\* the symbol table lines of each file
Declared(genreloc) ==
    [f \in Range(FileIds) |->
        IF f = "16"
        THEN {Symbol(<<"reset_vector">>, 0, 1), Symbol(<<"entry_elf">>, 0, 2),
              Symbol(<<"entry_csm">>, 0, 3), Symbol(<<"f">>, 4, 3)}
        ELSE IF f = "32seg"
        THEN {Symbol(<<"s">>, 0, 5), Symbol(<<"sb">>, 0, 6), Symbol(<<"d">>, 2, 5)}
        ELSE {Symbol(<<"f">>, 0, 7), Symbol(<<"i">>, 0, 8), Symbol(<<"v">>, 0, 9),
              Symbol(<<"t">>, 0, 10), Symbol(<<"l">>, 2, 11), Symbol(<<"o">>, 0, 12),
              Symbol(<<"d">>, 4, 11)}
             \cup (IF genreloc THEN {Symbol(<<"_reloc_abs_start">>, 0, 0)} ELSE {})]

\* parseObjDump's symbols: the declared symbols of each file and a dummy
\* symbol for every relocation that names none of them
SymbolTable(decl, names) ==
    [n \in {s.name : s \in decl} \cup names |->
        IF \E s \in decl : s.name = n THEN CHOOSE s \in decl : s.name = n
        ELSE Symbol(n, 0, 0)]

ParsedSymbols(E, genreloc) ==
    [f \in Range(FileIds) |->
        SymbolTable(Declared(genreloc)[f],
                    {Candidates[c].symbolname :
                        c \in {d \in E : FileOf[Candidates[d].owner] = f}})]

\* parseObjDump's relocs of a section
ParsedRelocs(id, E, tables) ==
    LET own == SelectSeq([c \in DOMAIN Candidates |-> c],
                         LAMBDA c : c \in E /\ Candidates[c].owner = id)
    IN [k \in 1..Len(own) |->
           [offset |-> Candidates[own[k]].offset,
            type |-> Candidates[own[k]].type,
            symbolname |-> Candidates[own[k]].symbolname,
            symbol |-> tables[FileOf[id]][Candidates[own[k]].symbolname]]]

\* parseObjDump's sections
ParsedSections(E, tables, low, align) ==
    LET R(id) == ParsedRelocs(id, E, tables)
    IN <<Section(FixedName(BUILD_BIOS_SIZE - 16), "16", 16, 1, R(1)),
         Section(<<"text", "e">>, "16", 4, 1, R(2)),
         Section(<<"text", "a">>, "16", 8, 2, R(3)),
         Section(FixedName(low), "16", 4, align, R(4)),
         Section(<<"text", "s">>, "32seg", 3, 4, R(5)),
         Section(<<"bss", "s">>, "32seg", 2, 1, R(6)),
         Section(<<"text", "f">>, "32flat", 9, 1, R(7)),
         Section(<<"text", "init", "i">>, "32flat", 5, 1, R(8)),
         Section(<<"data", "varinit", "v">>, "32flat", 4, 4, R(9)),
         Section(<<"text", "32fseg", "init", "t">>, "32flat", 5, 1, R(10)),
         Section(<<"data", "varlow", "l">>, "32flat", 10, 4, R(11)),
         Section(<<"other", "o">>, "32flat", 2, 1, R(12))>>

\* the builds: whether the 32flat file has _reloc_abs_start, the offset and
\* the alignment of the lower fixed section, CONFIG_MALLOC_UPPERMEMORY
Variants ==
    {[genreloc |-> TRUE, low |-> BUILD_MIN_BIOSTABLE + 16, align |-> 1, upper |-> FALSE],
     [genreloc |-> FALSE, low |-> 8 * BUILD_MIN_BIOSTABLE, align |-> 1, upper |-> TRUE],
     [genreloc |-> FALSE, low |-> 8 * BUILD_MIN_BIOSTABLE, align |-> 2, upper |-> FALSE]}

Configs(upper) ==
    {[CONFIG_COREBOOT |-> FALSE, CONFIG_CSM |-> FALSE, CONFIG_MALLOC_UPPERMEMORY |-> upper],
     [CONFIG_COREBOOT |-> TRUE, CONFIG_CSM |-> FALSE, CONFIG_MALLOC_UPPERMEMORY |-> upper],
     [CONFIG_COREBOOT |-> FALSE, CONFIG_CSM |-> TRUE, CONFIG_MALLOC_UPPERMEMORY |-> upper]}

\* main after the three parseObjDump calls
Parsed(variants) ==
    /\ \E E \in RelocSets(MaxRelocs), v \in variants :
          /\ symbols = ParsedSymbols(E, v.genreloc)
          /\ allsections = ParsedSections(E, symbols, v.low, v.align)
          /\ config \in Configs(v.upper)
    /\ sections = <<>>
    /\ entrysym = None
    /\ pc = "start"
    /\ anchors = {} /\ pending = <<>> /\ keepsections = {} /\ runtimesections = {}
    /\ lay = LayInit(FALSE)
    /\ written = <<>>
    /\ script = NoScript
    /\ fitgap = <<>>
    /\ run = 1 /\ first = <<>>

Init == Parsed(Variants)

main == StartKeep \/ KeepStep \/ KeepDone \/ RuntimeStep \/ Categorize

Next == main \/ doLayout \/ writeLinkerScripts

Spec == Init /\ [][Next]_vars

\* The two traversals and the categories, run a second time on the objects
\* the first run left behind.
InitReach == Parsed({v \in Variants : v.genreloc})

NextReach == main \/ Rerun

SpecReach == InitReach /\ [][NextReach]_vars

\* the traversals as the interpreter runs them: a statement that can run
\* does run.  For the two loops this is weak fairness of KeepStep and of
\* RuntimeStep with ENABLED written out: a turn of the loop can be taken
\* exactly when the work list is not empty.
SpecReachFair ==
    /\ SpecReach
    /\ WF_<<pc, pending>>(StartKeep \/ KeepDone \/ Categorize \/ Rerun)
    /\ \/ []<>~(pc = "keep" /\ pending # <<>>)
       \/ []<><<KeepStep>>_<<pc, pending>>
    /\ \/ []<>~(pc = "runtime" /\ pending # <<>>)
       \/ []<><<RuntimeStep>>_<<pc, pending>>

----------------------------------------------------------------------------
(* Claims about the packer *)

FixedIds == {i \in DOMAIN allsections : allsections[i].category = "fixed"}
PlacedIds == {i \in DOMAIN allsections : allsections[i].finalsegloc # None}
FilledIds == {i \in DOMAIN fitgap : fitgap[i] # 0}

\* two ranges [a, a + n) and [b, b + m) share an address
RangesMeet(a, n, b, m) == n > 0 /\ m > 0 /\ a < b + m /\ b < a + n

Offset(i) == FixedOffset(allsections[i].name)

\* the mandated ranges are pairwise disjoint and lie inside the 64KB region
FixedDisjoint ==
    /\ \A i, j \in FixedIds :
          i # j => ~RangesMeet(Offset(i), allsections[i].size,
                               Offset(j), allsections[j].size)
    /\ \A i \in FixedIds : Offset(i) + allsections[i].size <= BUILD_BIOS_SIZE

\* the fixed sections after i in address order (list order among equals)
After(i) ==
    {j \in FixedIds : Offset(j) > Offset(i) \/ (Offset(j) = Offset(i) /\ j > i)}

\* the space of the gap after fixed section i: up to the next fixed offset,
\* or to 0x10000 after the last fixed section
GapUpTo(i, after) ==
    (IF after = {} THEN BUILD_BIOS_SIZE
     ELSE Offset(CHOOSE j \in after : \A k \in after : Offset(j) <= Offset(k)))
    - Offset(i) - allsections[i].size

GapSpace(i) == GapUpTo(i, After(i))

\* no gap has negative space: in the packer's address order every fixed
\* section ends at or before the offset of the next one, and the last one at
\* or below the end of the 64KB region
GapsNonNegative == \A i \in FixedIds : GapSpace(i) >= 0

RECURSIVE SumSizes(_)
SumSizes(ids) ==
    IF ids = {} THEN 0
    ELSE LET i == CHOOSE i \in ids : TRUE
         IN allsections[i].size + SumSizes(ids \ {i})

GapsRespected ==
    \A i \in FixedIds : SumSizes({f \in FilledIds : fitgap[f] = i}) <= GapSpace(i)

NoOverlap ==
    \A i, j \in PlacedIds :
        i # j => ~RangesMeet(allsections[i].finalsegloc, allsections[i].size,
                             allsections[j].finalsegloc, allsections[j].size)

\* C1 as stated: when the mandated ranges of the fixed sections are pairwise
\* disjoint and inside the 64KB region, after the packer ran the sizes of the
\* sections put in a gap sum to at most the gap's space, and no two sections
\* with an address overlap.
C1_AsStated ==
    (pc = "lay16" /\ FixedDisjoint) => (GapsRespected /\ NoOverlap)

\* a filled section lies, with its whole extent, in the gap after a fixed
\* section
InsideGap(f) ==
    \E i \in FixedIds :
        /\ Offset(i) + allsections[i].size <= allsections[f].finalsegloc
        /\ allsections[f].finalsegloc + allsections[f].size
               <= Offset(i) + allsections[i].size + GapSpace(i)

\* C2 as stated: every fillable section the packer places gets a finalsegloc
\* that is a multiple of its own alignment and lies, with its whole extent,
\* between the end of a fixed section and the start of the next one, for
\* every fixed offset and size.
C2_AsStated ==
    (pc = "lay16" /\ FixedDisjoint /\ GapsNonNegative) =>
        \A f \in FilledIds :
            /\ allsections[f].finalsegloc % allsections[f].align = 0
            /\ InsideGap(f)

----------------------------------------------------------------------------
(* Claims about doLayout *)

KeptIds == Range(sections)

\* the segment base of a category's zone
SegmentBase(category) ==
    IF category \in {"fixed", "16", "32seg", "32fseg"} THEN BUILD_BIOS_ADDR
    ELSE IF category \in {"32textfseg", "32flat", "32init"} THEN 0
    ELSE lay.zonelow_base - lay.relocdelta

\* C3: after doLayout returns, finalloc and finalsegloc of every kept section
\* are both unset or both set, and when set finalsegloc = finalloc - the
\* segment base of the section's zone; for a low section that is
\* finalloc + relocdelta - zonelow_base.
C3_SegmentRelative ==
    lay.returned =>
        \A i \in KeptIds :
            /\ (allsections[i].finalloc = None) <=> (allsections[i].finalsegloc = None)
            /\ allsections[i].finalloc # None =>
                  /\ allsections[i].finalsegloc
                        = allsections[i].finalloc - SegmentBase(allsections[i].category)
                  /\ allsections[i].category = "32low" =>
                        allsections[i].finalsegloc
                          = allsections[i].finalloc + lay.relocdelta - lay.zonelow_base

C3_Witness ==
    /\ lay.returned /\ lay.relaid
    /\ \E i \in KeptIds : allsections[i].finalloc = None
    /\ \A c \in {"fixed", "16", "32seg", "32fseg", "32textfseg", "32flat",
                  "32init", "32low"} :
          \E i \in KeptIds : /\ allsections[i].category = c
                              /\ allsections[i].finalloc # None
                              /\ allsections[i].size > 0
    /\ \E i \in FilledIds : allsections[i].category = "16"

\* the chain of zones but for the link between 32fseg and 32flat
ChainButFlat ==
    /\ lay.ends["16"] = lay.firstfixed
    /\ lay.ends["32seg"] = lay.sec16_start
    /\ lay.ends["32textfseg"] = lay.sec32seg_start
    /\ lay.ends["32fseg"] = lay.sec32textfseg_start
    /\ lay.ends["32init"] = lay.sec32flat_start

\* C4 as stated: in every run, re-laid-out or not, every zone of the chain
\* ends at the start of the zone before it, and the 16bit zone at the first
\* fixed address.
C4_AsStated ==
    lay.returned => (ChainButFlat /\ lay.ends["32flat"] = lay.sec32fseg_start)

\* C4, amended: the same, except that in a run that re-lays-out the flat
\* zones the 32flat zone ends BUILD_MIN_BIOSTABLE bytes below sec32fseg_start,
\* at zonefseg_start.
C4_ZoneChain ==
    lay.returned =>
        /\ ChainButFlat
        /\ lay.ends["32flat"] = IF lay.relaid
                                THEN lay.sec32fseg_start - BUILD_MIN_BIOSTABLE
                                ELSE lay.sec32fseg_start
        /\ lay.relaid => lay.ends["32flat"] = lay.zonefseg_start

C4_Witness ==
    /\ lay.returned /\ lay.relaid
    /\ lay.sec32flat_start # lay.first_sec32flat_start
    /\ lay.sec32init_start < lay.sec32flat_start

\* the sections of the flat runtime and init zones lie below addr
FlatBelow(addr) ==
    \A i \in KeptIds :
        (allsections[i].category \in {"32flat", "32init"}
         /\ allsections[i].finalloc # None)
            => allsections[i].finalloc + allsections[i].size <= addr

\* the gap the first pass computed is short of the minimum
FirstGapShort ==
    lay.first_zonefseg_end - lay.first_zonefseg_start < BUILD_MIN_BIOSTABLE

\* C5 as stated: when the corrective pass runs, zonefseg_start ends up lower
\* than its first-pass value by exactly the shortfall (the minimum minus the
\* gap the first pass computed), and the flat zones are laid out below it.
C5_AsStated ==
    (lay.returned /\ lay.relaid) =>
        /\ lay.zonefseg_start
              = lay.first_zonefseg_start
                - (BUILD_MIN_BIOSTABLE
                   - (lay.first_zonefseg_end - lay.first_zonefseg_start))
        /\ FlatBelow(lay.zonefseg_start)

\* C5, amended: the corrective pass runs exactly when the first gap is short;
\* it then reserves the BUILD_MIN_BIOSTABLE bytes right below sec32fseg_start
\* (whatever the shortfall was) and lays the flat runtime zone out again to
\* end at zonefseg_start and the init zone to end at the new sec32flat_start.
C5_CorrectivePass ==
    lay.returned =>
        /\ lay.relaid <=> FirstGapShort
        /\ lay.relaid =>
              /\ lay.zonefseg_end = lay.sec32fseg_start
              /\ lay.zonefseg_start = lay.sec32fseg_start - BUILD_MIN_BIOSTABLE
              /\ lay.ends["32flat"] = lay.zonefseg_start
              /\ lay.ends["32init"] = lay.sec32flat_start
              /\ lay.sec32init_start <= lay.sec32flat_start
              /\ lay.sec32flat_start <= lay.zonefseg_start
              /\ FlatBelow(lay.zonefseg_start)

C5_Witness ==
    /\ lay.returned /\ lay.relaid
    /\ \E i, j \in KeptIds :
          /\ allsections[i].category = "32flat" /\ allsections[i].size > 0
          /\ allsections[i].finalloc # None
          /\ allsections[j].category = "32init" /\ allsections[j].size > 0
          /\ allsections[j].finalloc # None

\* C6: after doLayout returns the reserved range holds at least 2048 bytes
\* and no fixed, 16, 32seg, 32textfseg, 32fseg or 32flat section intersects it.
C6_ReservedRange ==
    lay.returned =>
        /\ lay.zonefseg_end - lay.zonefseg_start >= BUILD_MIN_BIOSTABLE
        /\ \A i \in KeptIds :
              (allsections[i].category
                   \in {"fixed", "16", "32seg", "32textfseg", "32fseg", "32flat"}
               /\ allsections[i].finalloc # None)
                  => ~RangesMeet(allsections[i].finalloc, allsections[i].size,
                                 lay.zonefseg_start,
                                 lay.zonefseg_end - lay.zonefseg_start)

C6_Witness ==
    /\ lay.returned /\ lay.relaid /\ lay.genreloc
    /\ \E i \in KeptIds :
          /\ allsections[i].category = "32flat" /\ allsections[i].size > 0
          /\ allsections[i].finalloc + allsections[i].size = lay.zonefseg_start

----------------------------------------------------------------------------
(* Claims about the traversals and the categories *)

\* main has set the category of every kept section
CategoriesSet ==
    keepsections # {} /\ \A i \in keepsections : allsections[i].category # "None"

\* the sections that the relocations of section s refer to
Targets(s) ==
    {allsections[s].relocs[k].symbol.section : k \in DOMAIN allsections[s].relocs}
    \ {0}

InitOnly(t) == Contains(allsections[t].name, <<"init">>)

\* a relocation of a kept section that the kept-section traversal resolved
\* to a symbol of another name
ResolvedCFunc ==
    \E s \in keepsections : \E k \in DOMAIN allsections[s].relocs :
        allsections[s].relocs[k].symbol.name # allsections[s].relocs[k].symbolname

\* C7: the kept-section traversal and the runtime traversal, run a second
\* time on the sections the first run left (with the relocations' symbols
\* rewritten and the categories set), end as the first run did: they do
\* not leave the program, and the kept sections, the runtime sections and
\* the category of every section are those of the first run.
C7_Idempotent ==
    run = 2 =>
        /\ pc \notin {"exit", "crash"}
        /\ pc = "fit" =>
              /\ keepsections = first.keepsections
              /\ runtimesections = first.runtimesections
              /\ [i \in DOMAIN allsections |-> allsections[i].category]
                     = first.category

\* C7: a second run has ended, on a graph with a relocation the first run
\* resolved, with init sections and runtime sections among the kept ones
C7_Witness ==
    /\ run = 2 /\ pc = "fit"
    /\ ResolvedCFunc
    /\ keepsections \ runtimesections # {}
    /\ \E i \in keepsections : allsections[i].category = "32init"
    /\ \E i \in keepsections : allsections[i].category = "32flat"

\* C8 as stated: no 32init section is the target of a relocation of a kept
\* section of another category
C8_AsStated ==
    CategoriesSet =>
        \A s \in keepsections : \A t \in Targets(s) :
            allsections[t].category = "32init"
                => allsections[s].category = "32init"

\* C8: after categorization, a 32init section is the target of a
\* relocation of a section of the runtime traversal only if its name has
\* ".init."; relocations into such sections, and relocations of kept
\* sections that the runtime traversal did not visit, do reach 32init
\* sections.
C8_NoRuntimeEdgeIntoInit ==
    CategoriesSet =>
        \A s \in runtimesections : \A t \in Targets(s) :
            allsections[t].category = "32init" => InitOnly(t)

\* C8: a runtime section refers to a 32init section, and so does a kept
\* section that is neither runtime nor 32init
C8_Witness ==
    /\ CategoriesSet
    /\ \E s \in runtimesections : \E t \in Targets(s) :
          allsections[t].category = "32init"
    /\ \E s \in keepsections \ runtimesections : \E t \in Targets(s) :
          /\ allsections[s].category # "32init"
          /\ allsections[t].category = "32init"

\* the anchors of the runtime traversal and what accepted edges reach from
\* them
RuntimeAnchors == {i \in keepsections : IsRuntimeAnchor(allsections[i].name)}

RECURSIVE Reached(_)
Reached(set) ==
    LET more == set \cup UNION {{t \in Targets(s) : ~InitOnly(t)} : s \in set}
    IN IF more = set THEN set ELSE Reached(more)

\* section s has a relocation into init-verified data that is not init-only
VarinitEdge(s) ==
    \E t \in Targets(s) :
        Contains(allsections[t].name, <<"data", "varinit">>) /\ ~InitOnly(t)

\* the runtime traversal left the program
RuntimeAborted == pc = "exit" /\ keepsections # {} /\ ~CategoriesSet

\* the name of section t alone gives its category
NamedCategory(t) ==
    Category(allsections[t], FALSE) \notin {"32init", allsections[t].fileid}

\* the runtime traversal aborts exactly when a visited section has a
\* relocation into init-verified data
AbortsExactly ==
    /\ RuntimeAborted => \E s \in Reached(RuntimeAnchors) : VarinitEdge(s)
    /\ CategoriesSet => /\ \A s \in Reached(RuntimeAnchors) : ~VarinitEdge(s)
                        /\ runtimesections = Reached(RuntimeAnchors)

\* a runtime section s with an edge into the init-only section t of the
\* flat file, which is no anchor
InitEdge(s, t) ==
    /\ s \in runtimesections /\ t \in Targets(s) /\ InitOnly(t)
    /\ t \in keepsections \ RuntimeAnchors
    /\ allsections[t].fileid = "32flat"

\* C9 as stated: the abort condition, and every flat-mode target of a
\* rejected edge is 32init
C9_AsStated ==
    /\ AbortsExactly
    /\ CategoriesSet =>
          \A s \in runtimesections : \A t \in Targets(s) :
              InitEdge(s, t) =>
                  /\ t \notin runtimesections
                  /\ allsections[t].category = "32init"
                  /\ (allsections[s].fileid = "32flat" /\ ~NamedCategory(s))
                         => allsections[s].category = "32flat"

\* C9: the runtime traversal leaves the program if and only if a section
\* it visits has a relocation into a section whose name has
\* ".data.varinit." and not ".init."; an edge into a section whose name
\* has ".init." is not followed: the target is not in the runtime set, and
\* if it is a kept section of the flat file whose name starts with none of
\* ".data.varlow.", ".data.varfseg.", ".text.32fseg.", ".fixedaddr.", its
\* category is 32init (with one of these prefixes the category is the one
\* of the prefix), while the referencing section, if such a section of
\* the flat file, has category 32flat.
C9_RuntimeAbort ==
    /\ AbortsExactly
    /\ CategoriesSet =>
          \A s \in runtimesections : \A t \in Targets(s) :
              InitEdge(s, t) =>
                  /\ t \notin runtimesections
                  /\ allsections[t].category =
                         IF NamedCategory(t) THEN Category(allsections[t], TRUE)
                         ELSE "32init"
                  /\ (allsections[s].fileid = "32flat" /\ ~NamedCategory(s))
                         => allsections[s].category = "32flat"

\* C9: a run in which a section of category 32flat has an edge into an
\* init-only section that became 32init
C9_Witness ==
    /\ CategoriesSet
    /\ \E s \in runtimesections : \E t \in Targets(s) :
          /\ InitEdge(s, t)
          /\ allsections[s].category = "32flat"
          /\ allsections[t].category = "32init"

----------------------------------------------------------------------------
(* Claims about the output *)

\* C10 as stated: all three scripts are written or none is, a run that
\* leaves the program has written none, and writing starts after the
\* traversals, the categories and the layout
C10_AsStated ==
    /\ pc \in {"done", "exit", "crash"} => Len(written) \in {0, 3}
    /\ pc = "exit" => written = <<>>
    /\ written # <<>> => CategoriesSet /\ lay.returned

\* C11 as stated: once doLayout has returned, every section of the kept
\* list, whatever its category and name, has finalloc and finalsegloc set
C11_AsStated ==
    lay.returned =>
        \A i \in KeptIds :
            /\ allsections[i].finalloc # None
            /\ allsections[i].finalsegloc # None

\* the relocations of the kept sections: <<section, index>>
KeptRelocs ==
    UNION {{<<i, k>> : k \in DOMAIN allsections[i].relocs} : i \in KeptIds}

IsInit(i) == i \in KeptIds /\ allsections[i].category = "32init"

IsNonInit(i) == i \in KeptIds /\ allsections[i].category # "32init"

RelocOf(e) == allsections[e[1]].relocs[e[2]]

\* where the relocation e is once its section is placed
Position(e) == allsections[e[1]].finalloc + RelocOf(e).offset

\* list has one entry per relocation of entries, which is its position
ListsExactly(list, entries) ==
    /\ Len(list) = Cardinality(entries)
    /\ \A e \in entries :
          Cardinality({k \in DOMAIN list : list[k] = Position(e)})
              = Cardinality({d \in entries : Position(d) = Position(e)})

Ascending(list) == \A k \in 1..Len(list) - 1 : list[k] <= list[k + 1]

AbsEntries ==
    {e \in KeptRelocs : /\ IsInit(e[1]) /\ RelocOf(e).type = "R_386_32"
                        /\ RelocOf(e).symbol.section # 0
                        /\ IsInit(RelocOf(e).symbol.section)}

RelEntries ==
    {e \in KeptRelocs : /\ IsInit(e[1]) /\ RelocOf(e).type = "R_386_PC32"
                        /\ RelocOf(e).symbol.section # 0
                        /\ IsNonInit(RelocOf(e).symbol.section)}

InitEntries ==
    {e \in KeptRelocs : /\ IsNonInit(e[1])
                        /\ RelocOf(e).symbol.section # 0
                        /\ IsInit(RelocOf(e).symbol.section)}

HasRelocSymbol == <<"_reloc_abs_start">> \in DOMAIN symbols["32flat"]

\* C12: in a run that writes the flat script, when the flat symbol table
\* has _reloc_abs_start the three lists of the script are exactly the
\* positions (finalloc + offset) of (1) the R_386_32 relocations of 32init
\* sections into 32init sections, (2) the R_386_PC32 relocations of 32init
\* sections into kept sections that are not 32init, (3) all relocations of
\* kept sections that are not 32init into 32init sections; each list is
\* ascending, and code32flat_start is sec32low_start less 4 for every
\* entry.  Without the symbol there is no table and code32flat_start is
\* sec32low_start.
C12_RelocTables ==
    pc = "done" =>
        IF HasRelocSymbol
        THEN /\ Len(script.relocstr) = 3
             /\ ListsExactly(script.relocstr[1].relocs, AbsEntries)
             /\ ListsExactly(script.relocstr[2].relocs, RelEntries)
             /\ ListsExactly(script.relocstr[3].relocs, InitEntries)
             /\ \A n \in 1..3 : Ascending(script.relocstr[n].relocs)
             /\ script.code32flat_start =
                    lay.sec32low_start
                        - 4 * Cardinality(AbsEntries \cup RelEntries \cup InitEntries)
        ELSE /\ script.relocstr = <<>>
             /\ script.code32flat_start = lay.sec32low_start

\* C12: a script with two fixups in its third list, which the kept
\* sections hold in descending order
C12_Witness ==
    /\ pc = "done" /\ HasRelocSymbol
    /\ Len(script.relocstr[3].relocs) = 2
    /\ \E d, e \in InitEntries :
          /\ d[1] < e[1]
          /\ Position(d) > Position(e)
    /\ script.code32flat_start = lay.sec32low_start - 8

\* a step leaves the two final addresses of section i as they are
KeepsAddress(i) ==
    /\ allsections'[i].finalloc = allsections[i].finalloc
    /\ allsections'[i].finalsegloc = allsections[i].finalsegloc

\* section i has one of its final addresses set
HasAddress(i) ==
    \/ allsections[i].finalloc # None
    \/ allsections[i].finalsegloc # None

\* C13 as stated: in a layout run, with the corrective re-layout or
\* without, a final address that is set is never assigned again
C13_AsStated ==
    [][\A i \in DOMAIN allsections : HasAddress(i) => KeepsAddress(i)]_vars

\* the step is the corrective pass laying out the zone of section i again
RelaysZoneOf(i) ==
    \/ pc = "relay32flat" /\ allsections[i].category = "32flat"
    \/ pc = "relay32init" /\ allsections[i].category = "32init"

\* C13: during a layout run the final addresses of a section, once set,
\* change in one case only: in a run in which the corrective re-layout
\* executes, the sections of the 32flat zone and then those of the 32init
\* zone are assigned a second time, each zone by one step; no other step
\* changes an address that is set.
C13_WriteOnce ==
    [][\A i \in DOMAIN allsections :
           HasAddress(i) => KeepsAddress(i) \/ RelaysZoneOf(i)]_vars

\* C13: a run whose corrective pass has moved the 32flat zone, with a
\* section in it, and a 16bit section that fitSections had placed
C13_Witness ==
    /\ lay.returned /\ lay.relaid
    /\ lay.sec32flat_start # lay.first_sec32flat_start
    /\ \E i \in KeptIds : /\ allsections[i].category = "32flat"
                          /\ allsections[i].finalloc # None
    /\ \E i \in DOMAIN fitgap : allsections[i].finalloc # None

----------------------------------------------------------------------------
(* Claims about findReachable *)

NoDuplicates(seq) ==
    \A i, j \in DOMAIN seq : i # j => seq[i] # seq[j]

\* a turn of the while loop of findReachable
LoopTurn ==
    /\ pc \in {"keep", "runtime"} /\ pending # <<>>
    /\ pc' \in {pc, "exit"}

\* the turn takes the last section off the work list and puts on it, once
\* each, sections that were not among the keys of the dictionary, which it
\* makes keys of the dictionary
EnqueuesNew ==
    LET n == Len(pending) - 1
        new == SubSeq(pending', n + 1, Len(pending'))
    IN /\ Len(pending') >= n
       /\ SubSeq(pending', 1, n) = SubSeq(pending, 1, n)
       /\ NoDuplicates(new)
       /\ Range(new) \cap anchors = {}
       /\ anchors' = anchors \cup Range(new)

\* the sections that the edges checkKeep accepts lead to from section s
KeepTargets(s) ==
    LET edge(k) == checkKeep(allsections, allsections[s].relocs[k],
                             allsections[s], symbols)
    IN {edge(k).symbol.section :
            k \in {n \in DOMAIN allsections[s].relocs : edge(n).ret # 0}}

RECURSIVE KeepReached(_)
KeepReached(set) ==
    LET more == set \cup UNION {KeepTargets(s) : s \in set}
    IN IF more = set THEN set ELSE KeepReached(more)

\* the entry section and the fixed-address sections
KeepAnchorSet ==
    {entrysym.section}
        \cup {i \in DOMAIN allsections :
                  StartsWith(allsections[i].name, <<"fixedaddr", "">>)}

\* what the two calls of findReachable return
ReturnsClosure ==
    /\ keepsections # {} => keepsections = KeepReached(KeepAnchorSet)
    /\ runtimesections # {} => runtimesections = Reached(RuntimeAnchors)

\* the work list holds keys of the dictionary, each once
WorkListOfKeys ==
    NoDuplicates(pending) /\ Range(pending) \subseteq anchors

\* C14: findReachable terminates on every section graph (the kept-section
\* traversal returns, the runtime traversal returns or leaves the
\* program), with cycles and self-references among the relocations; a
\* section is put on the work list only when it is not yet a key of the
\* dictionary, so at most once; and the returned set is the anchors with
\* every section reachable from them along accepted relocations, no more
\* and no less.
C14_Reachable ==
    /\ [](WorkListOfKeys /\ ReturnsClosure)
    /\ [][LoopTurn => EnqueuesNew]_<<pc, pending, anchors>>
    /\ (pc = "keep") ~> (pc = "runtime")
    /\ (pc = "runtime") ~> (pc \in {"fit", "exit"})

\* C14: both traversals have returned on a graph in which a section they
\* visit has a relocation into itself
C14_Witness ==
    /\ pc = "fit"
    /\ \E s \in runtimesections : s \in KeepTargets(s) /\ ~InitOnly(s)

----------------------------------------------------------------------------
(* Claims about checkKeep *)

\* the relocations of the kept sections, once the kept-section traversal
\* has returned
TraversedRelocs == IF keepsections = {} THEN {} ELSE KeptRelocs

\* the name that relocation e gives, and the name looked up for it in the
\* file named by a "_cfunc" prefix
NameOf(e) == RelocOf(e).symbolname

Callee(e) == SubSeq(NameOf(e), 4, Len(NameOf(e)))

UnitOf(e) == allsections[e[1]].fileid

\* the section that relocation e has an edge to, 0 if it has none
TargetOf(e) == RelocOf(e).symbol.section

IsCallable(t) == IsDestCFunc(allsections[t].name)

\* file u has a symbol of this name with a section that is not discarded
Defines(u, name) ==
    /\ name \in DOMAIN symbols[u]
    /\ symbols[u][name].section # 0
    /\ ~StartsWith(allsections[symbols[u][name].section].name, <<"discard", "">>)

\* relocation e matches the namespace of file u; flatonly is the rule as
\* the claim has it, where a "_cfunc" name matches the flat file alone
Matches(e, u, flatonly) ==
    IF MustBeCFunc(NameOf(e))
    THEN /\ HasCFuncPrefix(NameOf(e), u)
         /\ flatonly => u = "32flat"
         /\ Defines(u, Callee(e))
         /\ IsCallable(symbols[u][Callee(e)].section)
    ELSE /\ Defines(u, NameOf(e))
         /\ u # UnitOf(e) => ~IsCallable(symbols[u][NameOf(e)].section)

\* the symbol of file u that relocation e matches
Matched(e, u) ==
    symbols[u][IF MustBeCFunc(NameOf(e)) THEN Callee(e) ELSE NameOf(e)]

\* the resolution rules, for every relocation of a kept section
ResolvesByRules(flatonly) ==
    \A e \in TraversedRelocs :
        /\ MustBeCFunc(NameOf(e)) /\ TargetOf(e) # 0
              => /\ IsCallable(TargetOf(e))
                 /\ IF flatonly THEN allsections[TargetOf(e)].fileid = "32flat"
                    ELSE /\ HasCFuncPrefix(NameOf(e), allsections[TargetOf(e)].fileid)
                         /\ RelocOf(e).symbol.name = Callee(e)
        /\ ~MustBeCFunc(NameOf(e)) /\ TargetOf(e) # 0
              /\ allsections[TargetOf(e)].fileid # UnitOf(e)
              => ~IsCallable(TargetOf(e))
        /\ Matches(e, UnitOf(e), flatonly)
              => RelocOf(e).symbol = Matched(e, UnitOf(e))
        /\ (\A u \in Range(FileIds) : ~Matches(e, u, flatonly))
              => TargetOf(e) = 0

\* C15 as stated: a "_cfunc" name is resolved only to a callable section
\* of the flat file; another name is never resolved to a callable section
\* of another file; a match in the file of the relocation is preferred;
\* without a match there is no edge
C15_AsStated == ResolvesByRules(TRUE)

\* C15: in the kept-section traversal a relocation whose name starts with
\* "_cfunc" is resolved only to a callable section (name starting with
\* ".text." and not with ".text.asm.") of the file that the name's prefix
\* names ("_cfunc16_", "_cfunc32seg_", "_cfunc32flat_"), to the symbol
\* named by the rest of the name, from whichever file the reference comes;
\* a relocation of another name is never resolved to a callable section of
\* another file; a match in the relocation's own file is preferred over
\* one in the other two; a relocation that matches no file gets no edge.
C15_Resolution == ResolvesByRules(FALSE)

\* C15: the traversal has returned with a "_cfunc" name resolved into the
\* 32seg file, and with a name that its own file and another file both
\* define resolved in its own file
C15_Witness ==
    /\ \E e \in TraversedRelocs :
          /\ MustBeCFunc(NameOf(e)) /\ TargetOf(e) # 0
          /\ allsections[TargetOf(e)].fileid = "32seg"
          /\ UnitOf(e) = "16"
    /\ \E e \in TraversedRelocs :
          /\ ~MustBeCFunc(NameOf(e))
          /\ Matches(e, UnitOf(e), FALSE)
          /\ \E u \in Range(FileIds) \ {UnitOf(e)} :
                /\ Matches(e, u, FALSE)
                /\ Matched(e, u) # RelocOf(e).symbol

====
